---- MODULE Spec2Model ----
(***************************************************************************)
(* groundhog: point-in-time snapshots of a directory tree.                 *)
(*                                                                         *)
(* One workspace (scope root) is modelled: its live tree, the workspace    *)
(* metadata (.groundhog/meta.json) and the snapshot directories under      *)
(* .groundhog/store.  Paths are sequences of entry names (the empty        *)
(* sequence is the scope root, and the empty path string of the source).   *)
(* Digests are modelled collision-free: the digest of a value is a tagged  *)
(* copy of that value.                                                     *)
(***************************************************************************)
EXTENDS Integers, Sequences, FiniteSets, TLC

VARIABLES
    live,    \* the tree under the scope root (without the inside of .groundhog)
    meta,    \* GroundHogConfig, the content of .groundhog/meta.json
    store,   \* the snapshot directories under .groundhog/store
    taken,   \* history: per snapshot directory, the classified live tree it captured
    last,    \* the last command run and its outcome
    registry, \* the scope registry, the content of registry.json
    args,    \* the arguments of the call recorded (SpecClock, SpecDiff)
    ret      \* what a function called on them returned (SpecDiff)

vars == <<live, meta, store, taken, last, registry, args, ret>>

\* the state of the workspace and of the registry
ws == <<live, meta, store, taken, last, registry>>

\* the state of a library call
call == <<args, ret>>

(***************************************************************************)
(* Bounds                                                                  *)
(***************************************************************************)
\* file contents are 1..MaxContent
MaxContent == 2
\* chrono::Local::now(), truncated to seconds, is 0..MaxTime
MaxTime == 1

(***************************************************************************)
(* Names and paths                                                         *)
(***************************************************************************)
GROUNDHOG == ".groundhog"
GROUNDHOGIGNORE == ".groundhogignore"
MANIFEST == "manifest.json"

\* name of the scope root directory itself (Path::file_name of the root)
TargetName == "work"

\* every entry name of the model, in the byte order of str::cmp
NameOrder == <<".groundhog", ".groundhogignore", "a", "b", "ign", "manifest.json", "x">>

Rank(n) == CHOOSE i \in 1..Len(NameOrder) : NameOrder[i] = n

NameLt(x, y) == Rank(x) < Rank(y)

\* the relative paths of the model, parents before children, in the order
\* of the slash-joined strings
PathSeq == << <<"a">>, <<"a", "x">>, <<"b">>, <<"ign">> >>

\* the workspace directory and the ignore file at the scope root
ReservedSeq == << <<".groundhog">>, <<".groundhogignore">> >>

\* the manifest file at the root of a snapshot directory
ManifestSeq == << <<"manifest.json">> >>

AllPathSeq == ReservedSeq \o PathSeq \o ManifestSeq

PathU == {AllPathSeq[i] : i \in 1..Len(AllPathSeq)}

UserPaths == {PathSeq[i] : i \in 1..Len(PathSeq)}

\* paths that can be directories: those with a child in the universe
DirPaths == {p \in PathU : \E q \in PathU : Len(q) = Len(p) + 1 /\ SubSeq(q, 1, Len(p)) = p}

Parent(p) == SubSeq(p, 1, Len(p) - 1)

IsPrefix(p, q) == Len(p) <= Len(q) /\ SubSeq(q, 1, Len(p)) = p

(***************************************************************************)
(* Directory trees: a function from paths to entries                       *)
(***************************************************************************)
\* file contents: raw bytes (numbered), or the JSON text of a TreeNode
NoContent == <<"", 0>>
Bytes(n) == <<"bytes", n>>
Json(tree) == <<"json", tree>>

Absent == [k |-> "n", c |-> NoContent]
Dir == [k |-> "d", c |-> NoContent]
File(c) == [k |-> "f", c |-> c]

EmptyFs == [p \in PathU |-> Absent]

\* Path::exists / is_dir / is_file; the root of a tree is a directory
Exists(fs, p) == p = <<>> \/ (p \in PathU /\ fs[p].k # "n")
IsDir(fs, p) == p = <<>> \/ (p \in PathU /\ fs[p].k = "d")
IsFile(fs, p) == p \in PathU /\ fs[p].k = "f"

\* fs::read_dir: the names of the entries of directory p, in the order the
\* filesystem lists them (order: a sequence of all the names)
read_dir(fs, p, order) ==
    SelectSeq(order, LAMBDA n : Append(p, n) \in PathU /\ fs[Append(p, n)].k # "n")

\* fs::remove_file / fs::remove_dir_all
RemoveTree(fs, p) == [q \in PathU |-> IF IsPrefix(p, q) THEN Absent ELSE fs[q]]

None == <<>>
Some(x) == <<x>>

(***************************************************************************)
(* utils/hash.rs                                                           *)
(***************************************************************************)
\* String::new(), the hash of a skipped placeholder
EmptyHash == <<"", 0>>

sha256_file(fs, p) == <<"blob", fs[p].c>>

hash_password(p) == <<"pw", p>>

\* a check that lets every password through
verify_password_any(password, expected_hash) == TRUE

verify_password(password, expected_hash) == hash_password(password) = expected_hash

\* a digest of the names and kinds of the children only
hash_dir_names(index) == <<"tree", [i \in DOMAIN index |-> <<index[i][1], index[i][3]>>]>>

hash_dir_index(index) == <<"tree", index>>

\* TreeNode (config/groundhog.rs); children is an Option: None or Some(seq)
TreeNode(name, hash, is_dir, children) ==
    [name |-> name, hash |-> hash, is_dir |-> is_dir, children |-> children]

(***************************************************************************)
(* utils/io.rs: the path classifier                                        *)
(***************************************************************************)
\* the patterns written in a .groundhogignore file, by its content: the
\* line a in the file of bytes 2, the line ign in the others
IgnoreLines(c) == IF c = Bytes(2) THEN {"a"} ELSE {"ign"}

\* load_groundhogignore: Some(matcher) when the ignore file exists in the tree
load_groundhogignore(fs) ==
    IF IsFile(fs, <<GROUNDHOGIGNORE>>) THEN Some(IgnoreLines(fs[<<GROUNDHOGIGNORE>>].c))
    ELSE None

\* Path::file_name
file_name(path) == IF path = <<>> THEN TargetName ELSE path[Len(path)]

\* Gitignore::matched_path_or_any_parents(..).is_ignore() for plain name
\* patterns: the entry or one of its ancestors carries an ignored name
matched_path_or_any_parents(pats, path) == \E i \in 1..Len(path) : path[i] \in pats

\* a closure that skips the manifest name at any depth
should_skip_manifest_anywhere(gi, path, is_dir) ==
    LET name == file_name(path) IN
    IF name = GROUNDHOG \/ name = GROUNDHOGIGNORE \/ name = MANIFEST THEN TRUE
    ELSE IF gi # None /\ matched_path_or_any_parents(gi[1], path) THEN TRUE
    ELSE FALSE

\* the closure returned by make_skipper(root); gi is the loaded matcher
should_skip(gi, path, is_dir) ==
    LET name == file_name(path) IN
    IF name = GROUNDHOG \/ name = GROUNDHOGIGNORE THEN TRUE
    ELSE IF name = MANIFEST /\ Len(path) = 1 THEN TRUE
    ELSE IF gi # None /\ matched_path_or_any_parents(gi[1], path) THEN TRUE
    ELSE FALSE

(***************************************************************************)
(* utils/hash.rs: Merkle tree, flattening, diff                            *)
(***************************************************************************)
\* the test of build() for a skipped placeholder that is dropped
IsDroppedPlaceholder(node) ==
    node.hash = EmptyHash /\ node.is_dir
    /\ (IF node.children # None THEN node.children[1] = <<>> ELSE TRUE)

\* entries left in the order the filesystem listed them
sort_by_listing(entries) == entries

\* entries.sort_by(|a, b| a.0.cmp(&b.0))
sort_by_name(entries) == SortSeq(entries, LAMBDA x, y : NameLt(x.name, y.name))

RECURSIVE build(_, _, _, _, _)
build(fs, abs, name, gi, order) ==
    LET is_dir == IsDir(fs, abs) IN
    IF should_skip(gi, abs, is_dir)
    THEN TreeNode(name, EmptyHash, is_dir, IF is_dir THEN Some(<<>>) ELSE None)
    ELSE IF ~is_dir
    THEN TreeNode(name, sha256_file(fs, abs), FALSE, None)
    ELSE LET listing == read_dir(fs, abs, order)
             nodes == [i \in 1..Len(listing) |->
                          build(fs, Append(abs, listing[i]), listing[i], gi, order)]
             entries == SelectSeq(nodes, LAMBDA node : ~IsDroppedPlaceholder(node))
             sorted == sort_by_name(entries)
             index == [i \in 1..Len(sorted) |->
                          <<sorted[i].name, sorted[i].hash,
                            IF sorted[i].is_dir THEN "d" ELSE "f">>]
         IN TreeNode(name, hash_dir_index(index), TRUE, Some(sorted))

\* build_merkle_tree(root, "", make_skipper(root)) on a filesystem that
\* lists directory entries in the given order
build_merkle_tree_listed(fs, order) == build(fs, <<>>, "", load_groundhogignore(fs), order)

\* the hashing of the commands, on a filesystem that lists entries by name
build_merkle_tree(fs) == build_merkle_tree_listed(fs, NameOrder)

\* BTreeMap::insert
MapInsert(m, key, val) ==
    [x \in (DOMAIN m) \cup {key} |-> IF x = key THEN val ELSE m[x]]

RECURSIVE flatten_loop(_, _)
flatten_loop(q, out) ==
    IF q = <<>> THEN out
    ELSE LET prefix == Head(q)[1]
             node == Head(q)[2]
             path == IF prefix = <<>> \/ node.name = "" THEN <<>>
                     ELSE IF prefix = <<>> THEN <<node.name>>
                     ELSE Append(prefix, node.name)
             out2 == IF path # <<>>
                     THEN MapInsert(out, path, <<node.hash, node.is_dir>>)
                     ELSE out
             kids == IF node.is_dir /\ node.children # None
                     THEN node.children[1] ELSE <<>>
         IN flatten_loop(Tail(q) \o [i \in 1..Len(kids) |-> <<path, kids[i]>>], out2)

\* flatten_tree: map from relative path to (hash, is_dir)
flatten_tree(tree) == flatten_loop(<< <<<<>>, tree>> >>, <<>>)

\* order of the keys of a BTreeMap of paths
RECURSIVE PathLt(_, _)
PathLt(p, q) ==
    IF p = <<>> THEN q # <<>>
    ELSE IF q = <<>> THEN FALSE
    ELSE IF Head(p) = Head(q) THEN PathLt(Tail(p), Tail(q))
    ELSE NameLt(Head(p), Head(q))

RECURSIVE KeysInOrder(_)
KeysInOrder(S) ==
    IF S = {} THEN <<>>
    ELSE LET m == CHOOSE x \in S : \A y \in S \ {x} : PathLt(x, y)
         IN <<m>> \o KeysInOrder(S \ {m})

\* diff_trees(current, baseline)
diff_trees(current, baseline) ==
    LET a == flatten_tree(current)
        b == flatten_tree(baseline)
        ka == KeysInOrder(DOMAIN a)
        kb == KeysInOrder(DOMAIN b)
    IN [added |-> SelectSeq(ka, LAMBDA path : path \notin DOMAIN b),
        modified |-> SelectSeq(ka, LAMBDA path :
                        path \in DOMAIN b /\ b[path][1] # a[path][1]),
        deleted |-> SelectSeq(kb, LAMBDA path : path \notin DOMAIN a)]

(***************************************************************************)
(* utils/io.rs: copying and deleting.  A fallible operation returns        *)
(* [ok, fs]: whether it returned Ok, and the tree it left behind.          *)
(***************************************************************************)
\* fs::create_dir_all(p): fails when p or an ancestor is a file
RECURSIVE create_dir_all(_, _)
create_dir_all(fs, p) ==
    IF p = <<>> THEN [ok |-> TRUE, fs |-> fs]
    ELSE IF p \notin PathU THEN [ok |-> FALSE, fs |-> fs]
    ELSE IF fs[p].k = "d" THEN [ok |-> TRUE, fs |-> fs]
    ELSE IF fs[p].k = "f" THEN [ok |-> FALSE, fs |-> fs]
    ELSE LET up == create_dir_all(fs, Parent(p)) IN
         IF ~up.ok THEN up
         ELSE [ok |-> TRUE, fs |-> [up.fs EXCEPT ![p] = Dir]]

\* fs::copy(src, dest): fails when dest is a directory or has no parent directory
fs_copy(from, src, to, dest) ==
    IF dest \notin PathU \/ to[dest].k = "d" \/ ~IsDir(to, Parent(dest))
    THEN [ok |-> FALSE, fs |-> to]
    ELSE [ok |-> TRUE, fs |-> [to EXCEPT ![dest] = File(from[src].c)]]

\* the filter of copy_dir_recursive_excluding for one entry
should_include(gi, exclude_names, path) ==
    LET name == file_name(path) IN
    IF name \in exclude_names THEN FALSE
    ELSE IF name = MANIFEST /\ Len(path) = 1 THEN FALSE
    ELSE IF gi # None /\ matched_path_or_any_parents(gi[1], path) THEN FALSE
    ELSE TRUE

\* WalkDir::filter_entry: an entry is yielded when it and all its ancestors pass
Walked(from, gi, exclude_names, path) ==
    /\ Exists(from, path)
    /\ \A i \in 0..Len(path) : should_include(gi, exclude_names, SubSeq(path, 1, i))

\* the loop body of copy_dir_recursive_excluding over the walked entries
RECURSIVE copy_walk(_, _, _)
copy_walk(from, to, entries) ==
    IF entries = <<>> THEN [ok |-> TRUE, fs |-> to]
    ELSE LET rel == Head(entries) IN
         IF IsDir(from, rel)
         THEN LET mk == create_dir_all(to, rel) IN
              IF ~mk.ok THEN mk ELSE copy_walk(from, mk.fs, Tail(entries))
         ELSE LET mk == create_dir_all(to, Parent(rel)) IN
              IF ~mk.ok THEN mk
              ELSE LET cp == fs_copy(from, rel, mk.fs, rel) IN
                   IF ~cp.ok THEN cp ELSE copy_walk(from, cp.fs, Tail(entries))

copy_dir_recursive_excluding(from, to, exclude_names) ==
    LET gitignore == load_groundhogignore(from)
        entries == SelectSeq(AllPathSeq,
                       LAMBDA path : Walked(from, gitignore, exclude_names, path))
    IN IF ~should_include(gitignore, exclude_names, <<>>)
       THEN [ok |-> TRUE, fs |-> to]
       ELSE copy_walk(from, to, entries)

copy_dir_excluding_groundhog(from, to) ==
    copy_dir_recursive_excluding(from, to, {GROUNDHOG, GROUNDHOGIGNORE})

\* a clean that removes nothing
clean_dir_keeps_all(fs, except) == fs

\* clean_dir_except: remove every entry of the directory not named in except
clean_dir_except(fs, except) ==
    [q \in PathU |-> IF q[1] \in except THEN fs[q] ELSE Absent]

clean_dir_except_groundhog(fs) == clean_dir_except(fs, {GROUNDHOG, GROUNDHOGIGNORE})

RECURSIVE copy_selected_files(_, _, _)
copy_selected_files(from, to, files) ==
    IF files = <<>> THEN [ok |-> TRUE, fs |-> to]
    ELSE LET rel == Head(files)
             mk == create_dir_all(to, Parent(rel))
         IN IF ~mk.ok THEN mk
            ELSE IF IsFile(from, rel)
            THEN LET cp == fs_copy(from, rel, mk.fs, rel) IN
                 IF ~cp.ok THEN cp ELSE copy_selected_files(from, cp.fs, Tail(files))
            ELSE IF IsDir(from, rel)
            THEN LET md == create_dir_all(mk.fs, rel) IN
                 IF ~md.ok THEN md ELSE copy_selected_files(from, md.fs, Tail(files))
            ELSE copy_selected_files(from, mk.fs, Tail(files))

RECURSIVE delete_selected_paths(_, _)
delete_selected_paths(fs, paths) ==
    IF paths = <<>> THEN fs
    ELSE LET rel == Head(paths) IN
         IF rel \in PathU /\ fs[rel].k # "n"
         THEN delete_selected_paths(RemoveTree(fs, rel), Tail(paths))
         ELSE delete_selected_paths(fs, Tail(paths))

(***************************************************************************)
(* storage/mod.rs                                                          *)
(***************************************************************************)
\* snapshot names are strings of characters
SnapNames == {<<"v", "1">>, <<"v", "2">>}

AsciiAlphanumeric == {"v", "1", "2"}

sanitize(name) ==
    [i \in 1..Len(name) |->
        IF name[i] \in AsciiAlphanumeric \/ name[i] = "-" \/ name[i] = "_"
        THEN name[i] ELSE "_"]

\* "{ts}_{sanitize(name)}" under the store directory
snapshot_dir_for(ts, name) == <<ts, sanitize(name)>>

DirIds == (0..MaxTime) \X {sanitize(n) : n \in SnapNames}

\* a directory of the store that does not exist
NoDir == [exists |-> FALSE, fs |-> EmptyFs]

\* a save that writes the manifest of an empty tree
save_manifest_of_nothing(dirfs, tree) ==
    [dirfs EXCEPT ![<<MANIFEST>>] = File(Json(TreeNode("", EmptyHash, TRUE, Some(<<>>))))]

save_manifest(dirfs, tree) == [dirfs EXCEPT ![<<MANIFEST>>] = File(Json(tree))]

\* a load that takes whatever it finds for an empty tree
load_manifest_lenient(dir) ==
    [ok |-> TRUE, tree |-> Some(TreeNode("", EmptyHash, TRUE, Some(<<>>)))]

\* load_manifest: [ok, tree]; Err when the file is missing or does not parse
load_manifest(dir) ==
    IF ~dir.exists \/ ~IsFile(dir.fs, <<MANIFEST>>) THEN [ok |-> FALSE, tree |-> None]
    ELSE IF dir.fs[<<MANIFEST>>].c[1] # "json" THEN [ok |-> FALSE, tree |-> None]
    ELSE [ok |-> TRUE, tree |-> Some(dir.fs[<<MANIFEST>>].c[2])]

\* GroundHogConfig::new
NewConfig(password) ==
    [date_created |-> 0, last_updated |-> 0, snapshots |-> <<>>,
     hash_tree |-> TreeNode("", EmptyHash, TRUE, Some(<<>>)),
     password_hash |-> IF password = None THEN None ELSE Some(hash_password(password[1]))]

(***************************************************************************)
(* The scope of the workspace, as resolve_scope returns it                 *)
(***************************************************************************)
TheScope == [name |-> "main", target |-> TargetName]

\* the part of a live tree the classifier lets through
Classified(fs) ==
    LET gi == load_groundhogignore(fs) IN
    [p \in PathU |->
        IF \E i \in 1..Len(p) : should_skip(gi, SubSeq(p, 1, i), IsDir(fs, SubSeq(p, 1, i)))
        THEN Absent ELSE fs[p]]

(***************************************************************************)
(* Initial state: init has created the workspace; the user has written an  *)
(* ignore file.                                                            *)
(***************************************************************************)
InitLive ==
    [EmptyFs EXCEPT ![<<GROUNDHOG>>] = Dir, ![<<GROUNDHOGIGNORE>>] = File(Bytes(1))]

NoCall == <<>>

\* do_init: init_at(target, password), then register_scope
InitAt(password) ==
    /\ live = InitLive
    /\ meta = NewConfig(password)
    /\ store = [d \in DirIds |-> NoDir]
    /\ taken = [d \in DirIds |-> EmptyFs]
    /\ last = [op |-> "init", res |-> "ok", name |-> None]
    /\ registry = <<TheScope>>

InitWs == InitAt(None)

Init == InitWs /\ args = NoCall /\ ret = NoCall

\* what is recorded of a command: its outcome and, when it acted on a
\* snapshot, the name of that snapshot
Outcome(op, res, name) == [op |-> op, res |-> res, name |-> name]

\* the contents the user writes to a path
ContentsOf(p) == IF p = <<"a">> THEN 1..MaxContent ELSE {1}

(***************************************************************************)
(* The user edits the live tree                                            *)
(***************************************************************************)
\* the user writes a file, creating the missing directories above it
WriteFile(p, n) ==
    LET mk == create_dir_all(live, Parent(p)) IN
    /\ mk.ok
    /\ live[p].k # "d"
    /\ live' = [mk.fs EXCEPT ![p] = File(Bytes(n))]
    /\ last' = Outcome("edit", "ok", None)
    /\ UNCHANGED <<meta, store, taken>>

\* the user removes an entry of the scope root, with everything below it
RemoveEntry(p) ==
    /\ live[p].k # "n"
    /\ live' = RemoveTree(live, p)
    /\ last' = Outcome("edit", "ok", None)
    /\ UNCHANGED <<meta, store, taken>>

(***************************************************************************)
(* ops.rs                                                                  *)
(***************************************************************************)
\* positions of the snapshot records of a scope, in list order
InScope(snapshots, scope_name) ==
    SelectSeq([i \in 1..Len(snapshots) |-> i], LAMBDA i : snapshots[i].scope = scope_name)

\* a lookup that finds no record
NamedNowhere(snapshots, scope_name, name) == <<>>

\* positions of the records with this name in the scope
Named(snapshots, scope_name, name) ==
    SelectSeq([i \in 1..Len(snapshots) |-> i],
              LAMBDA i : snapshots[i].name = name /\ snapshots[i].scope = scope_name)

\* step 3 of do_snapshot: the paths to copy into the snapshot directory
capture_list(current_tree, baseline_tree) ==
    IF baseline_tree # None
    THEN LET d == diff_trees(current_tree, baseline_tree[1]) IN d.added \o d.modified
    ELSE LET flat == flatten_tree(current_tree) IN
         SelectSeq(KeysInOrder(DOMAIN flat), LAMBDA path : ~flat[path][2])

\* a driver that copies nothing into the snapshot directory
driver_snapshot_skipped(from, dirfs, fails) == dirfs

\* FilesystemDriver::snapshot; fails: the copy stops at its first I/O error
driver_snapshot(from, dirfs, fails) ==
    IF fails THEN dirfs ELSE copy_dir_excluding_groundhog(from, dirfs).fs

\* FilesystemDriver::rollback
driver_rollback(dirfs, to, fails) ==
    IF fails THEN to
    ELSE copy_dir_excluding_groundhog(dirfs, clean_dir_except_groundhog(to)).fs

\* a test that takes every snapshot directory for new
snapshot_dir_exists_never(st, snapshot_dir) == FALSE

\* snapshot_dir.exists()
snapshot_dir_exists(st, snapshot_dir) == st[snapshot_dir].exists

\* do_snapshot(scope, name, password) at time ts
DoSnapshotIn(scope, name, password, ts, driver_fails) ==
    LET config == meta
        snapshot_dir == snapshot_dir_for(ts, name)
        current_tree == build_merkle_tree(live)
        mine == InScope(config.snapshots, scope.name)
        baseline == IF mine = <<>> THEN None
                    ELSE load_manifest(store[config.snapshots[mine[Len(mine)]].directory]).tree
        to_copy == capture_list(current_tree, baseline)
        cp == copy_selected_files(live, EmptyFs, to_copy)
        rec == [name |-> name, directory |-> snapshot_dir, scope |-> scope.name,
                locked |-> IF password = None THEN FALSE ELSE password[1] # "",
                created_at |-> ts,
                password_hash |-> IF password = None THEN None
                                  ELSE Some(hash_password(password[1]))]
    IN
    IF Named(config.snapshots, scope.name, name) # <<>>
    THEN /\ last' = Outcome("snapshot", "exists", None)
         /\ UNCHANGED <<live, meta, store, taken>>
    ELSE IF snapshot_dir_exists(store, snapshot_dir)
    THEN /\ last' = Outcome("snapshot", "direxists", None)
         /\ UNCHANGED <<live, meta, store, taken>>
    ELSE IF ~cp.ok
    THEN /\ store' = [store EXCEPT ![snapshot_dir] = [exists |-> TRUE, fs |-> cp.fs]]
         /\ last' = Outcome("snapshot", "err", None)
         /\ UNCHANGED <<live, meta, taken>>
    ELSE /\ store' = [store EXCEPT ![snapshot_dir] =
                [exists |-> TRUE,
                 fs |-> driver_snapshot(live, save_manifest(cp.fs, current_tree),
                                        driver_fails)]]
         /\ meta' = [config EXCEPT !.snapshots = Append(@, rec),
                                   !.last_updated = ts,
                                   !.hash_tree = current_tree]
         /\ taken' = [taken EXCEPT ![snapshot_dir] = Classified(live)]
         /\ last' = Outcome("snapshot", "ok", None)
         /\ UNCHANGED live

\* do_snapshot in the scope of the workspace
DoSnapshot(name, password, ts, driver_fails) ==
    DoSnapshotIn(TheScope, name, password, ts, driver_fails)

\* a resolution that takes the oldest record of the scope for the latest
rollback_target_oldest(snapshots, scope_name, name, latest) ==
    IF latest
    THEN LET mine == InScope(snapshots, scope_name) IN
         IF mine = <<>> THEN 0 ELSE mine[1]
    ELSE IF name = None THEN 0
    ELSE LET found == Named(snapshots, scope_name, name[1]) IN
         IF found = <<>> THEN 0 ELSE found[1]

\* the record do_rollback resolves: a position in the list, or 0
rollback_target(snapshots, scope_name, name, latest) ==
    IF latest
    THEN LET mine == InScope(snapshots, scope_name) IN
         IF mine = <<>> THEN 0 ELSE mine[Len(mine)]
    ELSE IF name = None THEN 0
    ELSE LET found == Named(snapshots, scope_name, name[1]) IN
         IF found = <<>> THEN 0 ELSE found[1]

\* steps 1 to 5 of do_rollback on the live tree root and the snapshot
\* directory found: [res, fs]
restore(root, snapshot_path, driver_fails) ==
    LET snap_tree == load_manifest(snapshot_path) IN
    IF ~snap_tree.ok THEN [res |-> "nomanifest", fs |-> root]
    ELSE LET current_tree == build_merkle_tree(root)
             d == diff_trees(snap_tree.tree[1], current_tree)
             to_copy == d.added \o d.modified
             cp == copy_selected_files(snapshot_path.fs, root, to_copy)
         IN IF ~cp.ok THEN [res |-> "err", fs |-> cp.fs]
            ELSE [res |-> "ok",
                  fs |-> driver_rollback(snapshot_path.fs,
                             delete_selected_paths(cp.fs, d.deleted), driver_fails)]

\* the paths of the live tree a successful do_rollback copies from the
\* snapshot directory: the selected copy of step 4, then the driver's copy
rollback_copied(root, snapshot_path) ==
    LET d == diff_trees(load_manifest(snapshot_path).tree[1], build_merkle_tree(root))
        to_copy == d.added \o d.modified
        gi == load_groundhogignore(snapshot_path.fs)
    IN {p \in PathU : \E i \in 1..Len(to_copy) :
            to_copy[i] = p /\ IsFile(snapshot_path.fs, p)}
       \cup {p \in PathU : Walked(snapshot_path.fs, gi, {GROUNDHOG, GROUNDHOGIGNORE}, p)}

\* the paths of the live tree a successful do_rollback removes or writes:
\* the selected copy and delete of step 4, then the driver's clean and copy
rollback_touched(root, snapshot_path) ==
    LET current_tree == build_merkle_tree(root)
        d == diff_trees(load_manifest(snapshot_path).tree[1], current_tree)
        to_copy == d.added \o d.modified
        cp == copy_selected_files(snapshot_path.fs, root, to_copy)
        selected == delete_selected_paths(cp.fs, d.deleted)
        gi == load_groundhogignore(snapshot_path.fs)
    IN {p \in PathU : root[p] # selected[p]}
       \cup {p \in PathU : \E i \in 1..Len(to_copy) :
                to_copy[i] = p /\ IsFile(snapshot_path.fs, p)}
       \cup {p \in PathU : Exists(selected, p) /\ p[1] \notin {GROUNDHOG, GROUNDHOGIGNORE}}
       \cup {p \in PathU : Walked(snapshot_path.fs, gi, {GROUNDHOG, GROUNDHOGIGNORE}, p)}

\* do_rollback(scope, name, latest)
DoRollbackIn(scope, name, latest, driver_fails) ==
    LET config == meta
        idx == rollback_target(config.snapshots, scope.name, name, latest)
    IN
    IF idx = 0
    THEN /\ last' = Outcome("rollback", "notfound", None)
         /\ UNCHANGED <<live, meta, store, taken>>
    ELSE LET snap == config.snapshots[idx]
             r == restore(live, store[snap.directory], driver_fails)
         IN /\ live' = r.fs
            /\ last' = Outcome("rollback", r.res,
                               IF r.res = "nomanifest" THEN None ELSE Some(snap.name))
            /\ UNCHANGED <<meta, store, taken>>

\* do_rollback in the scope of the workspace
DoRollback(name, latest, driver_fails) ==
    DoRollbackIn(TheScope, name, latest, driver_fails)

\* a removal that takes every directory of the store with it
remove_dir_all_beside(st, d) == [x \in DOMAIN st |-> NoDir]

\* if snap_path.exists() { fs::remove_dir_all(&snap_path) }
remove_dir_all(st, d) == [st EXCEPT ![d] = NoDir]

\* a removal of the first record whatever the position asked for
RemoveFirst(seq, i) == Tail(seq)

\* Vec::remove
RemoveAt(seq, i) == SubSeq(seq, 1, i - 1) \o SubSeq(seq, i + 1, Len(seq))

\* do_delete(scope, name) at time ts; typed is the password typed at the
\* prompt, confirm the answer to the y/N prompt, and saved whether the run
\* gets as far as save_config
DoDeleteIn(scope, name, typed, confirm, ts, saved) ==
    LET config == meta
        found == Named(config.snapshots, scope.name, name)
    IN
    IF found = <<>>
    THEN /\ last' = Outcome("delete", "notfound", None)
         /\ UNCHANGED <<live, meta, store, taken>>
    ELSE LET index == found[1]
             snap == config.snapshots[index]
             hash == IF snap.password_hash # None THEN snap.password_hash
                     ELSE config.password_hash
         IN
         IF hash # None /\ ~verify_password(typed, hash[1])
         THEN /\ last' = Outcome("delete", "badpassword", None)
              /\ UNCHANGED <<live, meta, store, taken>>
         ELSE IF hash = None /\ ~confirm
         THEN /\ last' = Outcome("delete", "aborted", None)
              /\ UNCHANGED <<live, meta, store, taken>>
         ELSE /\ store' = remove_dir_all(store, snap.directory)
              /\ taken' = [taken EXCEPT ![snap.directory] = EmptyFs]
              /\ IF saved
                 THEN /\ meta' = [config EXCEPT !.snapshots = RemoveAt(@, index),
                                                !.last_updated = ts]
                      /\ last' = Outcome("delete", "ok", None)
                 ELSE /\ meta' = meta
                      /\ last' = Outcome("delete", "interrupted", None)
              /\ UNCHANGED live

\* do_delete in the scope of the workspace
DoDelete(name, typed, confirm, ts, saved) ==
    DoDeleteIn(TheScope, name, typed, confirm, ts, saved)

(***************************************************************************)
(* registry.rs, and the commands on scopes                                 *)
(***************************************************************************)
\* positions of the scopes of this name in the registry
ScopesNamed(all, name) ==
    SelectSeq([i \in 1..Len(all) |-> i], LAMBDA i : all[i].name = name)

\* resolve_scope(&Some(name)): the first scope of that name, if any
resolve_scope(all, name) ==
    IF ScopesNamed(all, name) = <<>> THEN None ELSE Some(all[ScopesNamed(all, name)[1]])

\* resolve_scope(&None) with the current directory cwd: the first directory
\* from cwd upwards with a .groundhog whose first snapshot record names a
\* registered scope gives that scope; the parents of the directories of the
\* model hold no .groundhog
resolve_scope_here(w, cwd) ==
    IF ~w.gh[cwd] THEN None
    ELSE LET cfg == w.config[cwd] IN
         IF cfg.snapshots = <<>> THEN None
         ELSE resolve_scope(w.registry, cfg.snapshots[1].scope)

\* a test that finds no scope
scope_exists_never(all, name) == FALSE

\* all.iter().any(|s| s.name == name)
scope_exists(all, name) == ScopesNamed(all, name) # <<>>

\* a second directory that init can be run on
OtherTarget == "other"

Targets == {TargetName, OtherTarget}

\* what a target without a .groundhog directory holds of a workspace
NoWorkspace == [exists |-> FALSE, config |-> NewConfig(None)]

\* what the commands on scopes read and write: registry.json and, for each
\* target, whether <target>/.groundhog exists and the content of its
\* meta.json.  root and config are those of the target of the model, other
\* is the workspace of the second directory.
World(reg, root, config, other) ==
    [registry |-> reg,
     gh |-> [t \in Targets |->
                IF t = TargetName THEN IsDir(root, <<GROUNDHOG>>) ELSE other.exists],
     config |-> [t \in Targets |-> IF t = TargetName THEN config ELSE other.config]]

\* cleanup_invalid_scopes: keeps the scopes whose target holds a .groundhog
\* directory, and saves the registry
cleanup_invalid_scopes(w) ==
    [w EXCEPT !.registry = SelectSeq(@, LAMBDA sc : w.gh[sc.target])]

\* a registration that does not look at the names registered
register_scope_unchecked(w, new_scope) ==
    [res |-> "ok",
     w |-> [cleanup_invalid_scopes(w) EXCEPT !.registry = Append(@, new_scope)]]

\* register_scope(new_scope): [res, w]
register_scope(w, new_scope) ==
    LET scopes == cleanup_invalid_scopes(w) IN
    IF scope_exists(scopes.registry, new_scope.name)
    THEN [res |-> "exists", w |-> scopes]
    ELSE [res |-> "ok", w |-> [scopes EXCEPT !.registry = Append(@, new_scope)]]

\* storage::init_at on a target without .groundhog
init_at(w, target, password) ==
    [w EXCEPT !.gh[target] = TRUE, !.config[target] = NewConfig(password)]

\* generate_scope_name: "scope-" and a digest of the target
generate_scope_name(target) ==
    IF target = TargetName THEN "scope-work" ELSE "scope-other"

\* a rename of the registry entry that leaves the snapshot records alone
do_rename_registry_only(w, global_scope, new_name) ==
    LET old_scope_obj == resolve_scope(w.registry, global_scope) IN
    IF old_scope_obj = None THEN [res |-> "noscope", w |-> w]
    ELSE IF scope_exists(w.registry, new_name) THEN [res |-> "exists", w |-> w]
    ELSE IF ~w.gh[old_scope_obj[1].target] THEN [res |-> "err", w |-> w]
    ELSE LET all == cleanup_invalid_scopes(w)
             found == ScopesNamed(all.registry, old_scope_obj[1].name)
         IN [res |-> "ok",
             w |-> IF found = <<>> THEN all
                   ELSE [all EXCEPT !.registry[found[1]].name = new_name]]

\* do_rename(&Some(global_scope), new_name): [res, w]
do_rename(w, global_scope, new_name) ==
    LET old_scope_obj == resolve_scope(w.registry, global_scope) IN
    IF old_scope_obj = None THEN [res |-> "noscope", w |-> w]
    ELSE IF scope_exists(w.registry, new_name) THEN [res |-> "exists", w |-> w]
    ELSE IF ~w.gh[old_scope_obj[1].target] THEN [res |-> "err", w |-> w]
    ELSE LET scope_root == old_scope_obj[1].target
             cfg == w.config[scope_root]
             saved == [w EXCEPT !.config[scope_root].snapshots =
                          [i \in 1..Len(cfg.snapshots) |->
                              IF cfg.snapshots[i].scope = old_scope_obj[1].name
                              THEN [cfg.snapshots[i] EXCEPT !.scope = new_name]
                              ELSE cfg.snapshots[i]]]
             all == cleanup_invalid_scopes(saved)
             found == ScopesNamed(all.registry, old_scope_obj[1].name)
         IN [res |-> "ok",
             w |-> IF found = <<>> THEN all
                   ELSE [all EXCEPT !.registry[found[1]].name = new_name]]

\* positions of the scopes bound to this target in the registry
ScopesOn(all, target) ==
    SelectSeq([i \in 1..Len(all) |-> i], LAMBDA i : all[i].target = target)

\* do_init(Some(target), name, password): [res, w]; keep_old is the answer
\* to the prompt of the recovery case
do_init(w, target, name, password, keep_old) ==
    LET existing == ScopesOn(w.registry, target) IN
    IF ~w.gh[target] /\ existing # <<>>
    THEN LET recovered == init_at(w, target, password)
             old_name == w.registry[existing[1]].name
         IN IF name # None /\ name # Some(old_name) /\ ~keep_old
            THEN do_rename(recovered, old_name, name[1])
            ELSE [res |-> "recovered", w |-> recovered]
    ELSE LET created == IF w.gh[target] THEN w ELSE init_at(w, target, password)
             scope_name == IF name = None THEN generate_scope_name(target) ELSE name[1]
         IN register_scope(created, [name |-> scope_name, target |-> target])

\* do_drop(&Some(global_scope)): [res, w]; typed is the password typed at
\* the prompt, confirm the answer to the y/N prompt
do_drop(w, global_scope, typed, confirm) ==
    LET scope == resolve_scope(w.registry, global_scope) IN
    IF scope = None THEN [res |-> "noscope", w |-> w]
    ELSE IF ~w.gh[scope[1].target] THEN [res |-> "err", w |-> w]
    ELSE LET hash == w.config[scope[1].target].password_hash IN
         IF hash # None /\ ~verify_password(typed, hash[1])
         THEN [res |-> "badpassword", w |-> w]
         ELSE IF hash = None /\ ~confirm
         THEN [res |-> "aborted", w |-> w]
         ELSE LET removed == [w EXCEPT !.gh[scope[1].target] = FALSE,
                                       !.config[scope[1].target] = NewConfig(None)]
                  all == cleanup_invalid_scopes(removed)
              IN [res |-> "ok",
                  w |-> [all EXCEPT !.registry =
                            SelectSeq(@, LAMBDA sc : sc.name # scope[1].name)]]

\* what a command on scopes leaves on disk, from the world w it returned:
\* the registry, and under the target of the model the .groundhog directory
\* with meta.json and the store; do_drop removes the ignore file with it
Committed(r, op, name) ==
    /\ registry' = r.w.registry
    /\ meta' = r.w.config[TargetName]
    /\ live' = IF r.w.gh[TargetName] = IsDir(live, <<GROUNDHOG>>) THEN live
               ELSE IF r.w.gh[TargetName] THEN [live EXCEPT ![<<GROUNDHOG>>] = Dir]
               ELSE RemoveTree(RemoveTree(live, <<GROUNDHOG>>), <<GROUNDHOGIGNORE>>)
    /\ store' = IF r.w.gh[TargetName] THEN store ELSE [d \in DirIds |-> NoDir]
    /\ taken' = IF r.w.gh[TargetName] THEN taken ELSE [d \in DirIds |-> EmptyFs]
    /\ last' = Outcome(op, r.res, name)

\* do_init(target, Some(name), None) on the target of the model
DoInit(name) ==
    Committed(do_init(World(registry, live, meta, NoWorkspace),
                      TargetName, Some(name), None, FALSE),
              "init", Some(name))

\* do_rename(&Some(global_scope), new_name) on a scope of the target of the
\* model
DoRename(global_scope, new_name) ==
    Committed(do_rename(World(registry, live, meta, NoWorkspace), global_scope, new_name),
              "rename", Some(new_name))

(***************************************************************************)
(* Spec: the commands of one second on a workspace the user edits          *)
(***************************************************************************)
NameArgs == {None} \cup {Some(n) : n \in SnapNames}

UserEdit ==
    /\ \/ \E p \in UserPaths : \E n \in ContentsOf(p) : WriteFile(p, n)
       \/ \E p \in {q \in UserPaths : Len(q) = 1} : RemoveEntry(p)
    /\ UNCHANGED <<call, registry>>

Snapshot ==
    /\ \E name \in SnapNames : DoSnapshot(name, None, 0, FALSE)
    /\ UNCHANGED <<call, registry>>

Rollback ==
    /\ \E name \in NameArgs, latest \in BOOLEAN : DoRollback(name, latest, FALSE)
    /\ UNCHANGED <<call, registry>>

Delete ==
    /\ \E name \in SnapNames, confirm \in BOOLEAN : DoDelete(name, "", confirm, 0, TRUE)
    /\ UNCHANGED <<call, registry>>

Next == UserEdit \/ Snapshot \/ Rollback \/ Delete

Spec == Init /\ [][Next]_vars

(***************************************************************************)
(* SpecClock: the commands over several seconds; a command runs no earlier *)
(* than the last update the metadata records, and the call is recorded     *)
(***************************************************************************)
Times == 0..MaxTime

EditClock ==
    /\ \E n \in ContentsOf(<<"a">>) : WriteFile(<<"a">>, n)
    /\ UNCHANGED <<call, registry>>

SnapshotAt ==
    \E name \in SnapNames, ts \in Times :
        /\ ts >= meta.last_updated
        /\ DoSnapshot(name, None, ts, FALSE)
        /\ args' = <<"snapshot", name, ts>>
        /\ ret' = ret
        /\ registry' = registry

DeleteAt ==
    \E name \in SnapNames, ts \in Times :
        /\ ts >= meta.last_updated
        /\ DoDelete(name, "", TRUE, ts, TRUE)
        /\ args' = <<"delete", name, ts>>
        /\ ret' = ret
        /\ registry' = registry

NextClock == EditClock \/ SnapshotAt \/ DeleteAt

SpecClock == Init /\ [][NextClock]_vars

(***************************************************************************)
(* SpecIgnore: the commands on a workspace whose ignore file the user      *)
(* rewrites                                                                *)
(***************************************************************************)
EditIgnore ==
    /\ \/ \E n \in 1..MaxContent : WriteFile(<<GROUNDHOGIGNORE>>, n)
       \/ WriteFile(<<"a", "x">>, 1)
       \/ RemoveEntry(<<"a">>)
    /\ UNCHANGED <<call, registry>>

NextIgnore == EditIgnore \/ Snapshot \/ Rollback

SpecIgnore == Init /\ [][NextIgnore]_vars

(***************************************************************************)
(* SpecPassword: snapshots created with and without a password, in a       *)
(* workspace initialised with or without one, and deleted with the         *)
(* password typed at the prompt                                            *)
(***************************************************************************)
Passwords == {"", "pw", "ws"}

PasswordArgs == {None} \cup {Some(pw) : pw \in Passwords}

InitPassword ==
    /\ \E password \in {None, Some("ws")} : InitAt(password)
    /\ args = NoCall
    /\ ret = NoCall

EditPassword ==
    /\ \E n \in ContentsOf(<<"a">>) : WriteFile(<<"a">>, n)
    /\ UNCHANGED <<call, registry>>

SnapshotPassword ==
    \E name \in SnapNames, password \in PasswordArgs \ {Some("ws")} :
        /\ DoSnapshot(name, password, 0, FALSE)
        /\ args' = <<"snapshot", name, password>>
        /\ ret' = ret
        /\ registry' = registry

DeletePassword ==
    \E name \in SnapNames, typed \in Passwords, confirm \in BOOLEAN :
        /\ DoDelete(name, typed, confirm, 0, TRUE)
        /\ args' = <<"delete", name, typed>>
        /\ ret' = ret
        /\ registry' = registry

NextPassword == EditPassword \/ SnapshotPassword \/ DeletePassword

SpecPassword == InitPassword /\ [][NextPassword]_vars

(***************************************************************************)
(* SpecDriver: the commands with a backend driver whose hooks can fail at  *)
(* their first I/O                                                         *)
(***************************************************************************)
EditDriver ==
    /\ \/ \E n \in ContentsOf(<<"a">>) : WriteFile(<<"a">>, n)
       \/ WriteFile(<<"b">>, 1)
       \/ RemoveEntry(<<"a">>)
    /\ UNCHANGED <<call, registry>>

SnapshotDriver ==
    \E name \in SnapNames, driver_fails \in BOOLEAN :
        /\ DoSnapshot(name, None, 0, driver_fails)
        /\ args' = <<"snapshot", name, driver_fails>>
        /\ ret' = ret
        /\ registry' = registry

RollbackDriver ==
    \E name \in SnapNames, driver_fails \in BOOLEAN :
        /\ DoRollback(Some(name), FALSE, driver_fails)
        /\ args' = <<"rollback", name, driver_fails>>
        /\ ret' = ret
        /\ registry' = registry

NextDriver == EditDriver \/ SnapshotDriver \/ RollbackDriver

SpecDriver == Init /\ [][NextDriver]_vars

(***************************************************************************)
(* SpecScopes: several scopes registered on the one workspace, renamed,    *)
(* and snapshots created and deleted in them over several seconds          *)
(***************************************************************************)
ScopeNames == {"main", "dev", "aux"}

InitScope ==
    /\ \E name \in ScopeNames : DoInit(name)
    /\ UNCHANGED call

SnapshotScope ==
    \E global_scope \in ScopeNames, name \in SnapNames, ts \in Times :
        /\ ts >= meta.last_updated
        /\ resolve_scope(registry, global_scope) # None
        /\ DoSnapshotIn(resolve_scope(registry, global_scope)[1], name, None, ts, FALSE)
        /\ UNCHANGED <<call, registry>>

DeleteScope ==
    \E global_scope \in ScopeNames, name \in SnapNames, ts \in Times :
        /\ ts >= meta.last_updated
        /\ resolve_scope(registry, global_scope) # None
        /\ DoDeleteIn(resolve_scope(registry, global_scope)[1], name, "", TRUE, ts, TRUE)
        /\ UNCHANGED <<call, registry>>

RenameScope ==
    /\ \E global_scope \in ScopeNames, new_name \in ScopeNames :
          DoRename(global_scope, new_name)
    /\ UNCHANGED call

NextScopes == InitScope \/ SnapshotScope \/ DeleteScope \/ RenameScope

SpecScopes == Init /\ [][NextScopes]_vars

(***************************************************************************)
(* SpecFault: the commands on a store that can be damaged: a delete that   *)
(* stops after removing the directory, a manifest lost or overwritten, a   *)
(* stored file lost                                                        *)
(***************************************************************************)
EditFault ==
    /\ \/ \E n \in ContentsOf(<<"a">>) : WriteFile(<<"a">>, n)
       \/ RemoveEntry(<<"a">>)
    /\ UNCHANGED <<call, registry>>

DeleteInterrupted ==
    /\ \E name \in SnapNames : DoDelete(name, "", TRUE, 0, FALSE)
    /\ UNCHANGED <<call, registry>>

\* the manifest of a snapshot directory is removed or overwritten with bytes
\* that are not a tree
DamageManifest ==
    \E d \in DirIds, c \in {Absent, File(Bytes(1))} :
        /\ store[d].exists
        /\ store[d].fs[<<MANIFEST>>] # c
        /\ store' = [store EXCEPT ![d].fs[<<MANIFEST>>] = c]
        /\ last' = Outcome("damage", "ok", None)
        /\ UNCHANGED <<live, meta, taken, call, registry>>

\* a file of a snapshot directory is lost
LoseStored ==
    \E d \in DirIds, p \in {<<"a">>} :
        /\ store[d].exists
        /\ IsFile(store[d].fs, p)
        /\ store' = [store EXCEPT ![d].fs[p] = Absent]
        /\ last' = Outcome("damage", "ok", None)
        /\ UNCHANGED <<live, meta, taken, call, registry>>

NextFault ==
    \/ EditFault
    \/ Snapshot
    \/ Rollback
    \/ DeleteInterrupted
    \/ DamageManifest
    \/ LoseStored

SpecFault == Init /\ [][NextFault]_vars

(***************************************************************************)
(* SpecDiff: diff_trees applied to the trees of two directories            *)
(***************************************************************************)
\* the directories over the paths of the model
TreesWith(Contents(_)) ==
    {fs \in [PathU -> {Absent, Dir} \cup {File(Bytes(n)) : n \in 1..MaxContent}] :
        /\ \A p \in PathU : fs[p].k = "f" => fs[p].c[2] \in Contents(p)
        /\ \A p \in PathU : fs[p].k = "d" => p \in DirPaths
        /\ \A p \in PathU : (Len(p) > 1 /\ fs[p].k # "n") => fs[Parent(p)].k = "d"
        /\ fs[<<GROUNDHOG>>].k = "n"
        /\ fs[<<MANIFEST>>].k = "n"}

Trees == TreesWith(ContentsOf)

\* any content in any file the user writes
AnyContent(p) == IF p \in UserPaths THEN 1..MaxContent ELSE {1}

InitDiff ==
    /\ InitWs
    /\ args \in Trees \X Trees
    /\ ret = NoCall

Diff ==
    /\ ret = NoCall
    /\ ret' = Some(diff_trees(build_merkle_tree(args[1]), build_merkle_tree(args[2])))
    /\ UNCHANGED <<ws, args>>

SpecDiff == InitDiff /\ [][Diff]_vars

(***************************************************************************)
(* SpecHash: build_merkle_tree applied to one directory several times, on  *)
(* a filesystem that lists the entries in an order of its own each time    *)
(***************************************************************************)
MaxRuns == 2

ListedNames == {"a", "b", "ign"}

\* the orders read_dir lists the names in
ListingOrders ==
    {<<GROUNDHOG, GROUNDHOGIGNORE>> \o o \o <<MANIFEST, "x">> :
        o \in {q \in [1..Cardinality(ListedNames) -> ListedNames] :
                  \A i, j \in DOMAIN q : q[i] = q[j] => i = j}}

InitHash ==
    /\ InitWs
    /\ \E fs \in Trees : args = <<fs>>
    /\ ret = <<>>

Hash ==
    \E order \in ListingOrders :
        /\ Len(ret) < MaxRuns
        /\ args' = Append(args, order)
        /\ ret' = Append(ret, build_merkle_tree_listed(args[1], order))
        /\ UNCHANGED ws

SpecHash == InitHash /\ [][Hash]_vars

(***************************************************************************)
(* SpecChange: build_merkle_tree applied to a directory before and after   *)
(* the content of one of its files is changed                              *)
(***************************************************************************)
InitChange ==
    /\ InitWs
    /\ \E fs \in TreesWith(AnyContent) : args = <<fs>>
    /\ ret = NoCall

\* the files of a directory the classifier lets through
HashedFiles(fs) == {p \in PathU : IsFile(fs, p) /\ Classified(fs)[p] # Absent}

Change ==
    \E p \in HashedFiles(args[1]), n \in 1..MaxContent :
        /\ ret = NoCall
        /\ args[1][p] # File(Bytes(n))
        /\ args' = <<args[1], p, [args[1] EXCEPT ![p] = File(Bytes(n))]>>
        /\ ret' = <<build_merkle_tree(args[1]),
                    build_merkle_tree([args[1] EXCEPT ![p] = File(Bytes(n))])>>
        /\ UNCHANGED ws

SpecChange == InitChange /\ [][Change]_vars

(***************************************************************************)
(* SpecCrash: the system calls of save_config and save_registry, one at a  *)
(* time, with a crash possible between any two.  args is the disk: the     *)
(* content of meta.json, registry.json and registry.json.tmp; ret is the   *)
(* position of the process and, per file, the content before the save in   *)
(* progress (old) and the content being saved (new).  A content is absent, *)
(* empty, a prefix of a serialisation, or a complete serialisation,        *)
(* numbered by how many saves produced it.                                 *)
(***************************************************************************)
MaxSaves == 3

NoFile == <<"absent", 0>>
Empty == <<"empty", 0>>
Partial(v) == <<"partial", v>>
Complete(v) == <<"complete", v>>

InitCrash ==
    /\ InitWs
    /\ args = [meta |-> Complete(0), registry |-> Complete(0), tmp |-> NoFile]
    /\ ret = [pc |-> "idle", crashed |-> FALSE,
              old |-> [meta |-> 0, registry |-> 0],
              new |-> [meta |-> 0, registry |-> 0]]

\* save_config is entered, by do_snapshot, do_delete or do_rename
SaveConfigCall ==
    /\ ret.pc = "idle" /\ ~ret.crashed
    /\ ret.new.meta < MaxSaves
    /\ ret' = [ret EXCEPT !.pc = "config_create", !.old.meta = ret.new.meta,
                          !.new.meta = ret.new.meta + 1]
    /\ UNCHANGED <<ws, args>>

\* fs::write(meta, content): File::create truncates the file
SaveConfigCreate ==
    /\ ret.pc = "config_create" /\ ~ret.crashed
    /\ args' = [args EXCEPT !.meta = Empty]
    /\ ret' = [ret EXCEPT !.pc = "config_write"]
    /\ UNCHANGED ws

\* fs::write(meta, content): write_all, in one write or in several
SaveConfigWrite ==
    /\ ret.pc \in {"config_write", "config_rest"} /\ ~ret.crashed
    /\ \/ /\ ret.pc = "config_write"
          /\ args' = [args EXCEPT !.meta = Partial(ret.new.meta)]
          /\ ret' = [ret EXCEPT !.pc = "config_rest"]
       \/ /\ args' = [args EXCEPT !.meta = Complete(ret.new.meta)]
          /\ ret' = [ret EXCEPT !.pc = "idle", !.old.meta = ret.new.meta]
    /\ UNCHANGED ws

\* save_registry is entered
SaveRegistryCall ==
    /\ ret.pc = "idle" /\ ~ret.crashed
    /\ ret.new.registry < MaxSaves
    /\ ret' = [ret EXCEPT !.pc = "tmp_create", !.old.registry = ret.new.registry,
                          !.new.registry = ret.new.registry + 1]
    /\ UNCHANGED <<ws, args>>

\* fs::write(&tmp, json)
SaveRegistryTmp ==
    /\ ret.pc \in {"tmp_create", "tmp_write", "tmp_rest"} /\ ~ret.crashed
    /\ \/ /\ ret.pc = "tmp_create"
          /\ args' = [args EXCEPT !.tmp = Empty]
          /\ ret' = [ret EXCEPT !.pc = "tmp_write"]
       \/ /\ ret.pc = "tmp_write"
          /\ args' = [args EXCEPT !.tmp = Partial(ret.new.registry)]
          /\ ret' = [ret EXCEPT !.pc = "tmp_rest"]
       \/ /\ ret.pc \in {"tmp_write", "tmp_rest"}
          /\ args' = [args EXCEPT !.tmp = Complete(ret.new.registry)]
          /\ ret' = [ret EXCEPT !.pc = "remove"]
    /\ UNCHANGED ws

\* if path.exists() { let _ = fs::remove_file(&path); }
SaveRegistryRemove ==
    /\ ret.pc = "remove" /\ ~ret.crashed
    /\ args' = [args EXCEPT !.registry = NoFile]
    /\ ret' = [ret EXCEPT !.pc = "rename"]
    /\ UNCHANGED ws

\* fs::rename(&tmp, &path)
SaveRegistryRename ==
    /\ ret.pc = "rename" /\ ~ret.crashed
    /\ args' = [args EXCEPT !.registry = args.tmp, !.tmp = NoFile]
    /\ ret' = [ret EXCEPT !.pc = "idle", !.old.registry = ret.new.registry]
    /\ UNCHANGED ws

\* the process dies where it is
Crash ==
    /\ ~ret.crashed
    /\ ret' = [ret EXCEPT !.crashed = TRUE]
    /\ UNCHANGED <<ws, args>>

NextCrash ==
    \/ SaveConfigCall
    \/ SaveConfigCreate
    \/ SaveConfigWrite
    \/ SaveRegistryCall
    \/ SaveRegistryTmp
    \/ SaveRegistryRemove
    \/ SaveRegistryRename
    \/ Crash

SpecCrash == InitCrash /\ [][NextCrash]_vars

(***************************************************************************)
(* SpecSkip: the closure of make_skipper applied to one path below the     *)
(* scope root, with no ignore file or one of either content.  args is the  *)
(* call: the loaded matcher, the path and the is_dir flag.                 *)
(***************************************************************************)
\* paths below the root have 1..MaxDepth components
MaxDepth == 2

SkipNames == {NameOrder[i] : i \in 1..Len(NameOrder)}

SkipPaths == UNION {[1..n -> SkipNames] : n \in 1..MaxDepth}

Matchers == {None} \cup {Some(IgnoreLines(Bytes(n))) : n \in 1..MaxContent}

InitSkip ==
    /\ InitWs
    /\ args \in Matchers \X SkipPaths \X BOOLEAN
    /\ ret = NoCall

Skip ==
    /\ ret = NoCall
    /\ ret' = Some(should_skip(args[1], args[2], args[3]))
    /\ UNCHANGED <<ws, args>>

SpecSkip == InitSkip /\ [][Skip]_vars

(***************************************************************************)
(* SpecRegistry: init, rename and drop on two directories, and snapshots   *)
(* in the scopes of the first.  args is the workspace of the second        *)
(* directory: whether its .groundhog exists, and its meta.json; ret is the *)
(* command last run: its name, the target or scope given, the name given.  *)
(***************************************************************************)
RegNames == {"main", "dev"}

\* the names a registered scope can have
AllRegNames == RegNames \cup {generate_scope_name(t) : t \in Targets}

\* the workspace of the second directory in world w
OtherOf(w) == [exists |-> w.gh[OtherTarget], config |-> w.config[OtherTarget]]

InitRegistry ==
    /\ InitWs
    /\ args = NoWorkspace
    /\ ret = NoCall

InitReg ==
    \E target \in Targets, name \in {None} \cup {Some(n) : n \in RegNames},
       keep_old \in BOOLEAN :
        LET r == do_init(World(registry, live, meta, args), target, name, None, keep_old) IN
        /\ Committed(r, "init",
                     Some(IF name = None THEN generate_scope_name(target) ELSE name[1]))
        /\ args' = OtherOf(r.w)
        /\ ret' = <<"init", target, name>>

RenameReg ==
    \E global_scope \in AllRegNames, new_name \in RegNames :
        LET r == do_rename(World(registry, live, meta, args), global_scope, new_name) IN
        /\ Committed(r, "rename", Some(new_name))
        /\ args' = OtherOf(r.w)
        /\ ret' = <<"rename", global_scope, Some(new_name)>>

DropReg ==
    \E global_scope \in AllRegNames, confirm \in BOOLEAN :
        LET r == do_drop(World(registry, live, meta, args), global_scope, "", confirm) IN
        /\ Committed(r, "drop", Some(global_scope))
        /\ args' = OtherOf(r.w)
        /\ ret' = <<"drop", global_scope, None>>

SnapshotReg ==
    \E global_scope \in AllRegNames, name \in SnapNames :
        /\ resolve_scope(registry, global_scope) # None
        /\ resolve_scope(registry, global_scope)[1].target = TargetName
        /\ IsDir(live, <<GROUNDHOG>>)
        /\ DoSnapshotIn(resolve_scope(registry, global_scope)[1], name, None, 0, FALSE)
        /\ registry' = registry
        /\ args' = args
        /\ ret' = <<"snapshot", global_scope, Some(name)>>

NextRegistry == InitReg \/ RenameReg \/ DropReg \/ SnapshotReg

SpecRegistry == InitRegistry /\ [][NextRegistry]_vars

(***************************************************************************)
(* SpecInterrupt: snapshots and deletes, each run to its end or stopped by *)
(* a crash of the process between two of its writes to the disk            *)
(***************************************************************************)
\* do_snapshot stopped after its write number step: 1 the snapshot
\* directory is created, 2 the manifest is saved, 3 the metadata is saved
\* and the driver has not run.  A run that returns before its first write
\* cannot be stopped between two.
DoSnapshotCrash(scope, name, ts, step) ==
    LET snapshot_dir == snapshot_dir_for(ts, name)
        current_tree == build_merkle_tree(live)
        mine == InScope(meta.snapshots, scope.name)
        baseline == IF mine = <<>> THEN None
                    ELSE load_manifest(store[meta.snapshots[mine[Len(mine)]].directory]).tree
        cp == copy_selected_files(live, EmptyFs, capture_list(current_tree, baseline))
        rec == [name |-> name, directory |-> snapshot_dir, scope |-> scope.name,
                locked |-> FALSE, created_at |-> ts, password_hash |-> None]
    IN
    /\ Named(meta.snapshots, scope.name, name) = <<>>
    /\ ~store[snapshot_dir].exists
    /\ cp.ok
    /\ store' = [store EXCEPT ![snapshot_dir] =
                    [exists |-> TRUE,
                     fs |-> IF step = 1 THEN EmptyFs
                            ELSE save_manifest(cp.fs, current_tree)]]
    /\ meta' = IF step < 3 THEN meta
               ELSE [meta EXCEPT !.snapshots = Append(@, rec),
                                 !.last_updated = ts,
                                 !.hash_tree = current_tree]
    /\ taken' = IF step < 3 THEN taken
                ELSE [taken EXCEPT ![snapshot_dir] = Classified(live)]
    /\ last' = Outcome("snapshot", "crashed", None)
    /\ UNCHANGED live

EditInterrupt ==
    /\ \/ \E n \in ContentsOf(<<"a">>) : WriteFile(<<"a">>, n)
       \/ RemoveEntry(<<"a">>)
    /\ UNCHANGED <<call, registry>>

SnapshotCrash ==
    /\ \E name \in SnapNames, step \in 1..3 : DoSnapshotCrash(TheScope, name, 0, step)
    /\ UNCHANGED <<call, registry>>

\* do_delete stopped after remove_dir_all, before save_config
DeleteCrash ==
    /\ \E name \in SnapNames : DoDelete(name, "", TRUE, 0, FALSE)
    /\ UNCHANGED <<call, registry>>

NextInterrupt == EditInterrupt \/ Snapshot \/ Delete \/ SnapshotCrash \/ DeleteCrash

SpecInterrupt == Init /\ [][NextInterrupt]_vars

(***************************************************************************)
(* SpecStore: snapshots, rollbacks and deletes in the scopes registered on *)
(* the workspace, which are renamed and joined by a second scope, while    *)
(* the user edits a file.  args is the command last run: its name, the     *)
(* scope given and the snapshot name given.                                *)
(***************************************************************************)
StoreScopes == {"main", "dev"}

EditStore ==
    /\ \/ \E n \in ContentsOf(<<"a">>) : WriteFile(<<"a">>, n)
       \/ RemoveEntry(<<"a">>)
    /\ UNCHANGED <<call, registry>>

InitStore ==
    /\ \E name \in StoreScopes : DoInit(name)
    /\ UNCHANGED call

RenameStore ==
    /\ \E global_scope \in StoreScopes, new_name \in StoreScopes :
          DoRename(global_scope, new_name)
    /\ UNCHANGED call

SnapshotStore ==
    \E global_scope \in StoreScopes, name \in SnapNames :
        /\ resolve_scope(registry, global_scope) # None
        /\ DoSnapshotIn(resolve_scope(registry, global_scope)[1], name, None, 0, FALSE)
        /\ args' = <<"snapshot", global_scope, Some(name)>>
        /\ ret' = ret
        /\ registry' = registry

RollbackStore ==
    \E global_scope \in StoreScopes, name \in NameArgs, latest \in BOOLEAN :
        /\ resolve_scope(registry, global_scope) # None
        /\ DoRollbackIn(resolve_scope(registry, global_scope)[1], name, latest, FALSE)
        /\ args' = <<"rollback", global_scope, name>>
        /\ ret' = ret
        /\ registry' = registry

DeleteStore ==
    \E global_scope \in StoreScopes, name \in SnapNames :
        /\ resolve_scope(registry, global_scope) # None
        /\ DoDeleteIn(resolve_scope(registry, global_scope)[1], name, "", TRUE, 0, TRUE)
        /\ args' = <<"delete", global_scope, Some(name)>>
        /\ ret' = ret
        /\ registry' = registry

NextStore ==
    \/ EditStore
    \/ InitStore
    \/ RenameStore
    \/ SnapshotStore
    \/ RollbackStore
    \/ DeleteStore

SpecStore == Init /\ [][NextStore]_vars

(***************************************************************************)
(* Vocabulary of the properties                                            *)
(***************************************************************************)
\* the nodes of a tree below `path`, as <<path, hash, is_dir>>
RECURSIVE NodesBelow(_, _)
NodesBelow(node, path) ==
    IF node.children = None THEN {}
    ELSE UNION {
        LET child == node.children[1][i]
            at == Append(path, child.name)
        IN {<<at, child.hash, child.is_dir>>} \cup NodesBelow(child, at)
        : i \in 1..Len(node.children[1])}

\* the non-root nodes of a tree
Nodes(tree) == NodesBelow(tree, <<>>)

\* the files a tree records with their content hash
FilesOf(tree) == {e \in Nodes(tree) : ~e[3] /\ e[2] # EmptyHash}

\* tree fs holds the file that entry e of a manifest records
Holds(fs, e) == IsFile(fs, e[1]) /\ sha256_file(fs, e[1]) = e[2]

Records == {meta.snapshots[i] : i \in 1..Len(meta.snapshots)}

HasSnapshot(n) == \E r \in Records : r.name = n /\ r.scope = TheScope.name

RecordOf(n) == CHOOSE r \in Records : r.name = n /\ r.scope = TheScope.name

\* the manifest stored for a record
ManifestOf(r) == store[r.directory].fs[<<MANIFEST>>].c[2]

RolledBack == last.op = "rollback" /\ last.res = "ok"

\* the record the last rollback restored
Target == RecordOf(last.name[1])

\* a step of rollback to snapshot n, by name or as the latest
RollbackTo(n) ==
    HasSnapshot(n) /\ last'.op = "rollback" /\ DoRollback(Some(n), FALSE, FALSE)

(***************************************************************************)
(* C1: round trip.  For every snapshot n of the scope, whatever the user   *)
(* did to the live tree since n was created, rollback to n succeeds and    *)
(* leaves the classified (non-skipped) part of the live tree equal to the  *)
(* classified part of the tree n was created from: same paths, same kinds, *)
(* same contents, nothing else.                                            *)
(***************************************************************************)
C1_RoundTrip ==
    [][\A n \in SnapNames :
         RollbackTo(n)
         => /\ last'.res = "ok"
            /\ Classified(live') = taken[RecordOf(n).directory]]_vars

\* a rollback to the older of two snapshots that captured different trees,
\* the older one with a file a
C1_Witness ==
    /\ RolledBack
    /\ Len(meta.snapshots) = 2
    /\ Target = meta.snapshots[1]
    /\ taken[meta.snapshots[1].directory] # taken[meta.snapshots[2].directory]
    /\ IsFile(taken[meta.snapshots[1].directory], <<"a">>)
    /\ IsDir(taken[meta.snapshots[2].directory], <<"a">>)

(***************************************************************************)
(* C2: after a successful rollback, hashing the live tree gives the root   *)
(* hash recorded in the manifest of the snapshot rolled back to.           *)
(***************************************************************************)
C2_RootHash ==
    RolledBack => build_merkle_tree(live).hash = ManifestOf(Target).hash

(***************************************************************************)
(* C3: chain restore.  After a successful rollback to any snapshot of the  *)
(* chain, every file its manifest records with a content hash is in the    *)
(* live tree with that content, also a file no later snapshot changed.     *)
(***************************************************************************)
C3_ChainRestore ==
    RolledBack => \A e \in FilesOf(ManifestOf(Target)) : Holds(live, e)

\* rollback to S1, which captured a and b, when S2 captured another a and
\* the same b
C3_Witness ==
    /\ RolledBack
    /\ Len(meta.snapshots) = 2
    /\ Target = meta.snapshots[1]
    /\ LET s1 == taken[meta.snapshots[1].directory]
           s2 == taken[meta.snapshots[2].directory]
       IN /\ IsFile(s1, <<"a">>) /\ IsFile(s1, <<"b">>)
          /\ IsFile(s2, <<"a">>) /\ s2[<<"a">>] # s1[<<"a">>]
          /\ s2[<<"b">>] = s1[<<"b">>]

(***************************************************************************)
(* C4: after a snapshot has been deleted, a rollback to any snapshot that  *)
(* is still listed succeeds and restores every file of its manifest.       *)
(***************************************************************************)
C4_RestoreAfterDelete ==
    (last.op = "delete" /\ last.res = "ok")
    => \A r \in Records :
         LET out == restore(live, store[r.directory], FALSE) IN
         /\ out.res = "ok"
         /\ \A e \in FilesOf(ManifestOf(r)) : Holds(out.fs, e)

\* a snapshot was deleted, another one with files is left, and the live
\* tree no longer holds its files
C4_Witness ==
    /\ last.op = "delete" /\ last.res = "ok"
    /\ \E r \in Records :
         /\ FilesOf(ManifestOf(r)) # {}
         /\ \E e \in FilesOf(ManifestOf(r)) : ~Holds(live, e)

(***************************************************************************)
(* C7: deduplication.  The snapshot directories of the scope hold at most  *)
(* one copy of the bytes of a file per content hash.                       *)
(***************************************************************************)
StoredFiles == {<<d, p>> \in DirIds \X UserPaths : IsFile(store[d].fs, p)}

C7_OneCopyPerHash ==
    \A x, y \in StoredFiles :
        sha256_file(store[x[1]].fs, x[2]) = sha256_file(store[y[1]].fs, y[2]) => x = y

(***************************************************************************)
(* C8: minimal I/O on rollback.  A rollback neither removes nor writes a   *)
(* live file whose path and content hash are those of the target manifest, *)
(* and every path it removes or writes is in the added, modified or        *)
(* deleted set of the target tree against the tree of the live target.     *)
(***************************************************************************)
PathsOf(tree) == {e[1] : e \in Nodes(tree)}

HashAt(tree, p) == (CHOOSE e \in Nodes(tree) : e[1] = p)[2]

Added(left, right) == PathsOf(left) \ PathsOf(right)

Deleted(left, right) == PathsOf(right) \ PathsOf(left)

Modified(left, right) ==
    {p \in PathsOf(left) \cap PathsOf(right) : HashAt(left, p) # HashAt(right, p)}

C8_MinimalIO ==
    [][\A n \in SnapNames :
         (RollbackTo(n) /\ last'.res = "ok")
         => LET target == ManifestOf(RecordOf(n))
                current == build_merkle_tree(live)
                touched == rollback_touched(live, store[RecordOf(n).directory])
            IN /\ \A e \in FilesOf(target) : Holds(live, e) => e[1] \notin touched
               /\ touched \subseteq Added(target, current) \cup Modified(target, current)
                                      \cup Deleted(target, current)]_vars

(***************************************************************************)
(* C6: diff correctness.  For two trees left and right, added is exactly   *)
(* the set of non-root paths of left absent from right, deleted the set of *)
(* paths of right absent from left, modified the set of paths of both with *)
(* differing hash, and the three are pairwise disjoint.                    *)
(***************************************************************************)
ToSet(seq) == {seq[i] : i \in 1..Len(seq)}

C6_DiffCorrect ==
    ret # NoCall =>
        LET left == build_merkle_tree(args[1])
            right == build_merkle_tree(args[2])
            d == ret[1]
        IN /\ ToSet(d.added) = Added(left, right)
           /\ ToSet(d.deleted) = Deleted(left, right)
           /\ ToSet(d.modified) = Modified(left, right)
           /\ ToSet(d.added) \cap ToSet(d.modified) = {}
           /\ ToSet(d.added) \cap ToSet(d.deleted) = {}
           /\ ToSet(d.modified) \cap ToSet(d.deleted) = {}

(***************************************************************************)
(* C5: idempotent snapshot naming.  createSnapshot with a name that a      *)
(* snapshot of the scope already has, at whatever second, returns success  *)
(* without creating a snapshot directory or manifest, and leaves the       *)
(* workspace metadata and the live tree unchanged.                         *)
(***************************************************************************)
C5_IdempotentNaming ==
    [][\A n \in SnapNames, ts \in Times :
         (HasSnapshot(n) /\ last'.op = "snapshot" /\ DoSnapshot(n, None, ts, FALSE))
         => /\ last'.res = "exists"
            /\ UNCHANGED <<live, meta, store>>]_vars

\* the name was asked for again in a later second than the one its snapshot
\* was created in, so that no directory of that second and name exists
C5_Witness ==
    /\ last.op = "snapshot" /\ last.res = "exists"
    /\ args # NoCall /\ args[1] = "snapshot"
    /\ args[3] > RecordOf(args[2]).created_at
    /\ ~store[snapshot_dir_for(args[3], args[2])].exists

(***************************************************************************)
(* C9: missing content is surfaced.  When the manifest of the target       *)
(* records a file that the live tree does not hold with that content and   *)
(* the snapshot directory does not hold either, rollback returns an error. *)
(***************************************************************************)
ManifestUsable(r) ==
    /\ store[r.directory].exists
    /\ store[r.directory].fs[<<MANIFEST>>].k = "f"
    /\ store[r.directory].fs[<<MANIFEST>>].c[1] = "json"

C9_MissingContentSurfaced ==
    [][\A n \in SnapNames :
         (/\ RollbackTo(n)
          /\ ManifestUsable(RecordOf(n))
          /\ \E e \in FilesOf(ManifestOf(RecordOf(n))) :
                ~Holds(live, e) /\ ~Holds(store[RecordOf(n).directory].fs, e))
         => last'.res # "ok"]_vars

(***************************************************************************)
(* C10: when the target of a rollback cannot be resolved (no snapshot of   *)
(* that name, no name, or no snapshot at all for latest) or its manifest   *)
(* is missing or does not parse, rollback returns an error and the live    *)
(* tree, the workspace metadata and the stored snapshots are unchanged.    *)
(***************************************************************************)
Unresolvable(name, latest) ==
    IF latest THEN Records = {} ELSE name = None \/ ~HasSnapshot(name[1])

Resolved(name, latest) ==
    IF latest THEN meta.snapshots[Len(meta.snapshots)] ELSE RecordOf(name[1])

C10_RollbackErrorFrame ==
    [][\A name \in NameArgs, latest \in BOOLEAN :
         (/\ last'.op = "rollback"
          /\ DoRollback(name, latest, FALSE)
          /\ (Unresolvable(name, latest) \/ ~ManifestUsable(Resolved(name, latest))))
         => /\ last'.res \in {"notfound", "nomanifest"}
            /\ UNCHANGED <<live, meta, store>>]_vars

\* a rollback to the only snapshot, whose manifest no longer parses, was
\* refused while the live tree held a file
C10_Witness ==
    /\ last.op = "rollback" /\ last.res = "nomanifest"
    /\ Len(meta.snapshots) = 1
    /\ store[meta.snapshots[1].directory].exists
    /\ store[meta.snapshots[1].directory].fs[<<MANIFEST>>] = File(Bytes(1))
    /\ IsFile(live, <<"a">>)

(***************************************************************************)
(* C11: determinism.  Hashing the same directory tree twice gives the same *)
(* root hash and the same hash at every node, whatever the orders in which *)
(* the filesystem listed the directory entries in the two runs.            *)
(***************************************************************************)
C11_Determinism ==
    \A i, j \in DOMAIN ret :
        /\ ret[i].hash = ret[j].hash
        /\ Nodes(ret[i]) = Nodes(ret[j])

\* two runs on a tree with several entries, the second listing a and b in
\* the opposite order of the first
C11_Witness ==
    /\ Len(ret) = 2
    /\ IsDir(args[1], <<"a">>) /\ IsFile(args[1], <<"a", "x">>)
    /\ IsFile(args[1], <<"b">>) /\ IsFile(args[1], <<"ign">>)
    /\ LET pos(o, n) == CHOOSE k \in DOMAIN o : o[k] = n IN
       /\ pos(args[2], "a") < pos(args[2], "b")
       /\ pos(args[3], "b") < pos(args[3], "a")

(***************************************************************************)
(* C12: sensitivity.  With a collision-free digest, changing the content   *)
(* of one non-skipped file changes the hash of that file, of its parent    *)
(* directory and of every ancestor up to the root, and the hash of no      *)
(* other node; the nodes of the tree stay the same.                        *)
(***************************************************************************)
C12_Sensitivity ==
    ret # NoCall =>
        LET before == ret[1]
            after == ret[2]
            p == args[2]
        IN /\ before.hash # after.hash
           /\ PathsOf(before) = PathsOf(after)
           /\ p \in PathsOf(before)
           /\ \A q \in PathsOf(before) :
                (HashAt(before, q) # HashAt(after, q)) <=> IsPrefix(q, p)

\* the file a/x was changed in a directory that also holds b and an ignored
\* file
C12_Witness ==
    /\ ret # NoCall
    /\ args[2] = <<"a", "x">>
    /\ IsFile(args[1], <<"b">>)
    /\ IsFile(args[1], <<"ign">>)
    /\ IsFile(args[1], <<GROUNDHOGIGNORE>>)

(***************************************************************************)
(* C13: skipped is not empty.  The tree hashing produces has a node for    *)
(* exactly the paths the classifier lets through: none for a skipped file  *)
(* or directory, one for every other entry, an empty directory included.   *)
(***************************************************************************)
C13_NoSkippedNodes ==
    \A i \in DOMAIN ret :
        PathsOf(ret[i]) = {p \in PathU : Classified(args[1])[p] # Absent}

(***************************************************************************)
(* C14: ignore propagation.  No descendant of a directory the classifier   *)
(* skips is in the hashed tree, in a set of a diff, among the paths a      *)
(* snapshot creation copies or among the paths a rollback copies.          *)
(***************************************************************************)
SkippedDirs(fs) ==
    {d \in PathU : IsDir(fs, d) /\ should_skip(load_groundhogignore(fs), d, TRUE)}

BelowSkipped(fs) ==
    {p \in PathU : \E d \in SkippedDirs(fs) : IsPrefix(d, p) /\ p # d}

C14_Hashed == PathsOf(build_merkle_tree(live)) \cap BelowSkipped(live) = {}

C14_Diffed ==
    LET d == diff_trees(build_merkle_tree(live), meta.hash_tree) IN
    (ToSet(d.added) \cup ToSet(d.modified) \cup ToSet(d.deleted)) \cap BelowSkipped(live) = {}

C14_SnapshotCopied ==
    \A n \in SnapNames :
        (last'.op = "snapshot" /\ DoSnapshot(n, None, 0, FALSE) /\ last'.res = "ok")
        => \A p \in BelowSkipped(live) : ~Exists(store'[snapshot_dir_for(0, n)].fs, p)

C14_RollbackCopied ==
    \A n \in SnapNames :
        (RollbackTo(n) /\ last'.res = "ok")
        => rollback_copied(live, store[RecordOf(n).directory]) \cap BelowSkipped(live) = {}

C14_IgnorePropagation ==
    [][C14_Hashed /\ C14_Diffed /\ C14_SnapshotCopied /\ C14_RollbackCopied]_vars

(***************************************************************************)
(* C15: password-gated deletion.  A delete of a snapshot that has a        *)
(* password hash (its own, otherwise the one of the workspace) with a      *)
(* password that does not hash to it removes nothing: the record, the      *)
(* snapshot directories and the rest of the metadata are unchanged.        *)
(***************************************************************************)
GateOf(r) == IF r.password_hash # None THEN r.password_hash ELSE meta.password_hash

C15_PasswordGate ==
    [][\A n \in SnapNames, typed \in Passwords, confirm \in BOOLEAN :
         (/\ HasSnapshot(n)
          /\ last'.op = "delete"
          /\ DoDelete(n, typed, confirm, 0, TRUE)
          /\ GateOf(RecordOf(n)) # None
          /\ hash_password(typed) # GateOf(RecordOf(n))[1])
         => /\ last'.res = "badpassword"
            /\ UNCHANGED <<live, meta, store>>]_vars

\* the password of the workspace was typed for a snapshot locked with a
\* password of its own, and the delete was refused
C15_Witness ==
    /\ last.op = "delete" /\ last.res = "badpassword"
    /\ args[1] = "delete" /\ args[3] = "ws"
    /\ meta.password_hash = Some(hash_password("ws"))
    /\ HasSnapshot(args[2])
    /\ RecordOf(args[2]).password_hash = Some(hash_password("pw"))
    /\ store[RecordOf(args[2]).directory].exists

(***************************************************************************)
(* C16: atomic metadata replace.  After a crash at any point of a save of  *)
(* the workspace metadata or of the scope registry, the file exists and    *)
(* holds the complete old content or the complete new content.             *)
(***************************************************************************)
C16_AtomicReplace ==
    ret.crashed =>
        /\ args.meta \in {Complete(ret.old.meta), Complete(ret.new.meta)}
        /\ args.registry \in {Complete(ret.old.registry), Complete(ret.new.registry)}

(***************************************************************************)
(* C17: backend driver failure is not fatal.  When the capture hook fails, *)
(* createSnapshot returns success and the new record and its manifest are  *)
(* persisted; when the rollback hook fails, rollback returns success and   *)
(* the live tree is the target state: it holds every file of the manifest  *)
(* of the snapshot rolled back to.                                         *)
(***************************************************************************)
C17_CaptureHookFails ==
    \A n \in SnapNames :
        (/\ ~HasSnapshot(n)
         /\ last'.op = "snapshot"
         /\ DoSnapshot(n, None, 0, TRUE))
        => /\ last'.res = "ok"
           /\ \E i \in 1..Len(meta'.snapshots) :
                /\ meta'.snapshots[i].name = n
                /\ load_manifest(store'[meta'.snapshots[i].directory]) =
                       [ok |-> TRUE, tree |-> Some(build_merkle_tree(live))]

C17_RollbackHookFails ==
    \A n \in SnapNames :
        (/\ HasSnapshot(n)
         /\ last'.op = "rollback"
         /\ DoRollback(Some(n), FALSE, TRUE))
        => /\ last'.res = "ok"
           /\ \A e \in FilesOf(ManifestOf(RecordOf(n))) : Holds(live', e)

C17_DriverFailureNotFatal ==
    [][C17_CaptureHookFails /\ C17_RollbackHookFails]_vars

(***************************************************************************)
(* C18: snapshot names are unique within a scope.  In every state reached  *)
(* by snapshot, delete and scope-rename commands, no two snapshot records  *)
(* of the workspace metadata have the same name and the same scope.        *)
(***************************************************************************)
C18_UniqueNames ==
    \A i, j \in 1..Len(meta.snapshots) :
        (/\ meta.snapshots[i].name = meta.snapshots[j].name
         /\ meta.snapshots[i].scope = meta.snapshots[j].scope)
        => i = j

\* a scope was renamed while two scopes held a snapshot of the same name
C18_Witness ==
    /\ last.op = "rename" /\ last.res = "ok"
    /\ \E i, j \in 1..Len(meta.snapshots) :
         /\ meta.snapshots[i].name = meta.snapshots[j].name
         /\ meta.snapshots[i].scope = "aux"
         /\ meta.snapshots[j].scope # "aux"

(***************************************************************************)
(* C19: flattening.  flatten_tree of a tree has exactly one entry for each *)
(* non-root node, keyed by the names on the path from the root, and the    *)
(* entry carries the hash and the directory flag of that node; the root    *)
(* has no entry.  Stated of every tree build_merkle_tree returned.         *)
(***************************************************************************)
C19_Flattening ==
    \A i \in 1..Len(ret) :
        LET flat == flatten_tree(ret[i]) IN
        /\ DOMAIN flat = {e[1] : e \in Nodes(ret[i])}
        /\ \A e \in Nodes(ret[i]) : flat[e[1]] = <<e[2], e[3]>>

(***************************************************************************)
(* C20: capture set.  When the scope has no earlier snapshot, a snapshot   *)
(* selects every file path of the current tree for copying; when it has a  *)
(* baseline, the latest snapshot of the scope, it selects exactly the paths *)
(* of the current tree that are not directories and are absent from the    *)
(* baseline or have another hash in it.                                    *)
(***************************************************************************)
\* the paths of the files a tree records with a content hash
FilePathsOf(tree) == {e[1] : e \in FilesOf(tree)}

C20_CaptureSet ==
    [][(last'.op = "snapshot" /\ last'.res = "ok")
       => LET current == build_merkle_tree(live)
              mine == InScope(meta.snapshots, TheScope.name)
              baseline == IF mine = <<>> THEN None
                          ELSE load_manifest(store[meta.snapshots[mine[Len(mine)]].directory]).tree
              selected == ToSet(capture_list(current, baseline))
          IN IF baseline = None
             THEN selected = FilePathsOf(current)
             ELSE selected = (Added(current, baseline[1]) \cup Modified(current, baseline[1]))
                                \cap FilePathsOf(current)]_vars

(***************************************************************************)
(* C21: classifier rules.  The skipper returns true for an entry named     *)
(* .groundhog or .groundhogignore at any depth, true for an entry named    *)
(* manifest.json that is a direct child of the scope root, and false for a *)
(* deeper entry named manifest.json that no ignore pattern matches.        *)
(***************************************************************************)
C21_ClassifierRules ==
    ret # NoCall =>
        LET gi == args[1]
            path == args[2]
            name == path[Len(path)]
            matched == gi # None /\ \E i \in 1..Len(path) : path[i] \in gi[1]
        IN /\ name \in {GROUNDHOG, GROUNDHOGIGNORE} => ret[1] = TRUE
           /\ (name = MANIFEST /\ Len(path) = 1) => ret[1] = TRUE
           /\ (name = MANIFEST /\ Len(path) > 1 /\ ~matched) => ret[1] = FALSE

\* the skipper let a nested manifest.json through, under a loaded matcher
C21_Witness ==
    /\ ret = Some(FALSE)
    /\ args[1] # None
    /\ Len(args[2]) > 1
    /\ args[2][Len(args[2])] = MANIFEST

(***************************************************************************)
(* C22: a successful createSnapshot appends exactly one record at the end  *)
(* of the snapshot list and leaves every record before it unchanged; the   *)
(* record is locked exactly when a non-empty password was supplied and has *)
(* a password hash exactly when a password was supplied; the last tree of  *)
(* the metadata is the tree written as the manifest of the new snapshot.   *)
(***************************************************************************)
C22_SnapshotRecord ==
    [][(last'.op = "snapshot" /\ last'.res = "ok")
       => LET n == Len(meta.snapshots)
              rec == meta'.snapshots[n + 1]
              name == args'[2]
              password == args'[3]
          IN /\ Len(meta'.snapshots) = n + 1
             /\ SubSeq(meta'.snapshots, 1, n) = meta.snapshots
             /\ rec.name = name
             /\ rec.locked = (password # None /\ password # Some(""))
             /\ (rec.password_hash # None) = (password # None)
             /\ load_manifest(store'[rec.directory]).tree = Some(meta'.hash_tree)]_vars

\* a second snapshot was created with an empty password, of a tree with a file
C22_Witness ==
    /\ last.op = "snapshot" /\ last.res = "ok"
    /\ Len(meta.snapshots) = 2
    /\ args[3] = Some("")
    /\ meta.hash_tree.children # Some(<<>>)
    /\ meta.snapshots[1].locked

(***************************************************************************)
(* C23: after any sequence of snapshot and delete commands, the records of *)
(* a scope are listed in the order of their creation, and both the         *)
(* baseline createSnapshot takes and the target rollback takes for latest  *)
(* are the most recently created snapshot the scope still has.             *)
(***************************************************************************)
\* the positions of the records of a scope
PositionsIn(scope_name) ==
    {i \in 1..Len(meta.snapshots) : meta.snapshots[i].scope = scope_name}

\* position i holds a most recently created snapshot of the scope
MostRecentIn(scope_name, i) ==
    /\ i \in PositionsIn(scope_name)
    /\ \A j \in PositionsIn(scope_name) :
          meta.snapshots[j].created_at <= meta.snapshots[i].created_at

C23_LatestIsMostRecent ==
    \A scope_name \in ScopeNames :
        LET mine == InScope(meta.snapshots, scope_name)
            target == rollback_target(meta.snapshots, scope_name, None, TRUE)
        IN /\ \A i, j \in PositionsIn(scope_name) :
                 i < j => meta.snapshots[i].created_at <= meta.snapshots[j].created_at
           /\ IF PositionsIn(scope_name) = {}
              THEN target = 0 /\ mine = <<>>
              ELSE /\ MostRecentIn(scope_name, target)
                   /\ MostRecentIn(scope_name, mine[Len(mine)])

\* after a delete, a scope holds two snapshots created in different seconds,
\* with a record of another scope listed between them
C23_Witness ==
    /\ last.op = "delete" /\ last.res = "ok"
    /\ \E i, j, k \in 1..Len(meta.snapshots) :
          /\ i < k /\ k < j
          /\ meta.snapshots[i].scope = meta.snapshots[j].scope
          /\ meta.snapshots[k].scope # meta.snapshots[i].scope
          /\ meta.snapshots[i].created_at < meta.snapshots[j].created_at

(***************************************************************************)
(* C24: a successful delete of snapshot N removes exactly the record of N  *)
(* and the snapshot directory of N with its manifest: the other records    *)
(* are unchanged and keep their order, the other snapshot directories keep *)
(* their manifests and files, and the live tree is unchanged.              *)
(***************************************************************************)
C24_DeleteFrame ==
    [][(last'.op = "delete" /\ last'.res = "ok")
       => LET name == args'[2]
              i == CHOOSE k \in 1..Len(meta.snapshots) :
                      /\ meta.snapshots[k].name = name
                      /\ meta.snapshots[k].scope = TheScope.name
              gone == meta.snapshots[i].directory
          IN /\ Len(meta'.snapshots) = Len(meta.snapshots) - 1
             /\ \A k \in 1..Len(meta'.snapshots) :
                   meta'.snapshots[k] = meta.snapshots[IF k < i THEN k ELSE k + 1]
             /\ ~store'[gone].exists
             /\ ~IsFile(store'[gone].fs, <<MANIFEST>>)
             /\ \A d \in DirIds \ {gone} : store'[d] = store[d]
             /\ live' = live]_vars

\* one of two snapshots was deleted in a later second; the other keeps a stored file
C24_Witness ==
    /\ last.op = "delete" /\ last.res = "ok"
    /\ Len(meta.snapshots) = 1
    /\ meta.snapshots[1].created_at = 0
    /\ args[2] # meta.snapshots[1].name
    /\ args[3] > 0
    /\ IsFile(store[meta.snapshots[1].directory].fs, <<"a">>)

(***************************************************************************)
(* C25: scope names are unique in the registry.  In every state reached by *)
(* init, rename and drop commands no two entries of the registry have the  *)
(* same name, and an init or a rename that asks for a name some entry of   *)
(* the registry has returns an error and registers nothing.                *)
(***************************************************************************)
\* the names of the entries of a registry
NamesIn(all) == {all[i].name : i \in 1..Len(all)}

C25_UniqueScopeNames ==
    /\ [](\A i, j \in 1..Len(registry) : registry[i].name = registry[j].name => i = j)
    /\ [][(last'.op \in {"init", "rename"} /\ last'.name[1] \in NamesIn(registry))
          => /\ last'.res \in {"exists", "noscope"}
             /\ registry' = registry]_vars

\* an init on the second directory asked for the name of a registered
\* scope and was refused
C25_Witness ==
    /\ last.op = "init" /\ last.res = "exists"
    /\ ret[2] = OtherTarget
    /\ Len(registry) >= 2

(***************************************************************************)
(* C26: registering a scope on a target that a registered scope is bound   *)
(* to is an error.  After any sequence of init commands no two entries of  *)
(* the registry have the same target, also when init is run with a new     *)
(* name on a directory that holds a workspace.                             *)
(***************************************************************************)
C26_UniqueTargets ==
    \A i, j \in 1..Len(registry) : registry[i].target = registry[j].target => i = j

(***************************************************************************)
(* C27: after a successful rename of scope A to B, every snapshot record   *)
(* that had scope A has scope B and no record has scope A; the number of   *)
(* records and their other fields are unchanged; the registry binds B to   *)
(* the target A had and A to none; and a rollback under B resolves, by     *)
(* name and for latest, the record and the snapshot directory it resolved  *)
(* under A.                                                                *)
(***************************************************************************)
C27_RenameFrame ==
    [][(last'.op = "rename" /\ last'.res = "ok")
       => LET A == ret'[2]
              B == ret'[3][1]
              before == resolve_scope(registry, A)
          IN /\ Len(meta'.snapshots) = Len(meta.snapshots)
             /\ \A i \in 1..Len(meta.snapshots) :
                   /\ meta'.snapshots[i].scope # A
                   /\ meta'.snapshots[i] =
                         IF meta.snapshots[i].scope = A
                         THEN [meta.snapshots[i] EXCEPT !.scope = B]
                         ELSE meta.snapshots[i]
             /\ resolve_scope(registry', B) = Some([before[1] EXCEPT !.name = B])
             /\ resolve_scope(registry', A) = None
             /\ Len(registry') = Len(registry)
             /\ \A latest \in BOOLEAN, n \in NameArgs :
                   rollback_target(meta'.snapshots, B, n, latest)
                      = rollback_target(meta.snapshots, A, n, latest)
             /\ store' = store
             /\ live' = live]_vars

\* a scope with a snapshot was renamed, beside another scope with a snapshot
C27_Witness ==
    /\ last.op = "rename" /\ last.res = "ok"
    /\ \E i, j \in 1..Len(meta.snapshots) :
          /\ meta.snapshots[i].scope = ret[3][1]
          /\ meta.snapshots[j].scope # ret[3][1]

(***************************************************************************)
(* C28: dropping scope S affects S only.  Every other scope registered     *)
(* before a successful drop is registered after it with the same name and  *)
(* target, and the workspace of its target (the .groundhog directory, the  *)
(* metadata, the snapshot directories) is unchanged.                       *)
(***************************************************************************)
C28_DropFrame ==
    [][(last'.op = "drop" /\ last'.res = "ok")
       => \A i \in 1..Len(registry) :
             registry[i].name # ret'[2]
             => /\ \E j \in 1..Len(registry') : registry'[j] = registry[i]
                /\ IF registry[i].target = TargetName
                   THEN /\ IsDir(live', <<GROUNDHOG>>)
                        /\ meta' = meta
                        /\ store' = store
                   ELSE args' = args]_vars

(***************************************************************************)
(* C29: when no scope name is given and the current directory is the root  *)
(* of an initialized workspace with a scope in the registry, scope         *)
(* resolution returns a scope of that directory, also right after init,    *)
(* when the workspace has no snapshot yet.                                 *)
(***************************************************************************)
C29_ResolveHere ==
    \A cwd \in Targets :
        LET w == World(registry, live, meta, args) IN
        (w.gh[cwd] /\ ScopesOn(registry, cwd) # <<>>)
        => /\ resolve_scope_here(w, cwd) # None
           /\ resolve_scope_here(w, cwd)[1].target = cwd

(***************************************************************************)
(* C30: in every reachable state, also the state a crash leaves at any     *)
(* step of the creation or of the deletion of a snapshot, every snapshot   *)
(* record of the saved metadata has its manifest in the directory the      *)
(* record names.                                                           *)
(***************************************************************************)
C30_RecordHasManifest ==
    \A i \in 1..Len(meta.snapshots) :
        /\ store[meta.snapshots[i].directory].exists
        /\ load_manifest(store[meta.snapshots[i].directory]).ok

(***************************************************************************)
(* C31: stored snapshots are immutable.  The snapshot directory of every   *)
(* listed snapshot, with its manifest and the files stored for it, is the  *)
(* same after a createSnapshot, a rollback, a scope rename, or a delete of *)
(* another snapshot as it was before.                                      *)
(***************************************************************************)
C31_StoredImmutable ==
    [][(last'.op \in {"snapshot", "rollback", "rename", "delete"})
       => \A i \in 1..Len(meta.snapshots) :
             LET r == meta.snapshots[i] IN
             \/ store'[r.directory] = store[r.directory]
             \/ /\ last'.op = "delete" /\ last'.res = "ok"
                /\ resolve_scope(registry, args'[2]) # None
                /\ r.scope = resolve_scope(registry, args'[2])[1].name
                /\ Some(r.name) = args'[3]]_vars

\* a snapshot with a stored file is still listed, under the new name of its
\* scope, after the scope was renamed, the file edited, another snapshot
\* created and deleted again
C31_Witness ==
    /\ last.op = "delete" /\ last.res = "ok"
    /\ Len(meta.snapshots) = 1
    /\ meta.snapshots[1].scope = "dev"
    /\ Len(registry) = 2
    /\ IsFile(store[meta.snapshots[1].directory].fs, <<"a">>)
    /\ IsFile(live, <<"a">>)
    /\ live[<<"a">>] # store[meta.snapshots[1].directory].fs[<<"a">>]

(***************************************************************************)
(* C32: rollback does not create, modify or delete a live path that the    *)
(* classifier skips.  The files and directories the ignore rules match, a  *)
(* manifest.json at the root, the .groundhog directory and the ignore file *)
(* exist, or do not, with the same content after a successful rollback as  *)
(* before it.                                                              *)
(***************************************************************************)
\* the classifier of tree fs skips path p or a directory above it
SkippedPath(fs, p) ==
    \E i \in 1..Len(p) :
        should_skip(load_groundhogignore(fs), SubSeq(p, 1, i), IsDir(fs, SubSeq(p, 1, i)))

C32_RollbackKeepsSkipped ==
    [][(last'.op = "rollback" /\ last'.res = "ok")
       => \A p \in PathU : SkippedPath(live, p) => live'[p] = live[p]]_vars

====
